---- MODULE Spec2Model ----
(***************************************************************************)
(* QueueTimer backend: the assignment timer state machine of               *)
(* backend/timer/routers.py over the tables of backend/models.py.          *)
(*                                                                         *)
(* Representation.                                                         *)
(*  - An instant (a timezone-aware datetime) is a number of clock ticks    *)
(*    since the epoch of the model, TicksPerSec ticks to the second.  A    *)
(*    float number of seconds (elapsed_time, remaining_seconds, a          *)
(*    timedelta's total_seconds()) is the same number of ticks, so that    *)
(*    round() has fractions of a second to round.                          *)
(*  - Python's None is the empty sequence, a set value x is <<x>>.         *)
(*  - A table is a function from the primary keys of its rows to the rows. *)
(*  - A request handler runs as one step at the instant `clock`: the       *)
(*    clock readings one handler takes are one reading.  Time              *)
(*    passes between requests (Tick).  `resp` is the response to the       *)
(*    request just handled and `pre` the tables as that request found      *)
(*    them; both are cleared when time passes.  `history` observes the     *)
(*    run: it is written by no handler and read by none.                   *)
(*  - Under SpecConcurrent a request may also run in two steps, its read   *)
(*    (with the guard and the computation, which no await separates from   *)
(*    it) and its commit, with other requests in between; `sessions`       *)
(*    holds what each such request loaded and what it will commit.         *)
(*  - `request` is the body of the create or update just handled.  A       *)
(*    duration text HH:MM is <<HH, MM>>, a formatted HH:MM:SS is           *)
(*    <<HH, MM, SS>>, a title is the sequence of its characters.           *)
(*  - SpecStore keeps two assignments of two owners and runs the cleanup   *)
(*    of expired users; SpecCodec applies the duration codec to every      *)
(*    text the request schema admits; SpecCorrupt begins from rows with    *)
(*    null columns that no handler writes.                                 *)
(***************************************************************************)
EXTENDS Integers, Sequences, FiniteSets, TLC

VARIABLES
    clock,                  \* datetime.now(tz=utc), in ticks
    public_users,           \* table public_users: id -> row
    assignments,            \* table assignments: id -> row
    assignment_statistics,  \* table assignment_statistics: id -> row
    next_id,                \* the next serial primary key of assignments
    resp,                   \* the request just handled and its response
    pre,                    \* the two tables as that request found them
    history,                \* per assignment: ticks spent running, pauses accepted,
                            \* the instant the running time reached the budget
    sessions,               \* the requests between their read and their commit
    request                 \* the title and duration submitted with the request just handled

vars ==
    <<clock, public_users, assignments, assignment_statistics, next_id, resp, pre, history,
      sessions, request>>

tables == <<assignments, assignment_statistics>>

----------------------------------------------------------------------------
(* Bounds of the model *)

\* clock ticks per second
TicksPerSec == 2
\* ticks past a whole minute at which requests arrive
MaxSub == 1
\* pause requests sent to an assignment that would be accepted
MaxPauses == 2

MinuteTicks == 60 * TicksPerSec

DayTicks == 24 * 60 * MinuteTicks

\* the instants at which requests arrive: within MaxSub ticks of the epoch and
\* of one minute (the shortest budget) after it
Instants == { m * MinuteTicks + j : m \in {0, 1}, j \in 0..MaxSub }

\* the primary keys create_assignment may hand out
AssignmentIds == {1}

\* X-User-ID headers: two users' tokens and one no user has
TokenA == "tokA"

TokenB == "tokB"

TokenX == "tokX"

\* titles as sequences of characters: blank, plain, padded
Titles == { <<" ">>, <<"a">>, <<" ", "b", " ">> }

\* durations, HH:MM as <<HH, MM>>
Durations == { <<0, 0>>, <<0, 1>> }

\* the database sessions of two requests that may be in flight together
Sessions == {1, 2}

----------------------------------------------------------------------------
(* Values *)

None == <<>>

\* a request that submits no title and no duration
NoRequest == [title |-> <<>>, duration |-> <<>>]

Some(x) == <<x>>

Val(o) == o[1]

\* `a or b` of two optional datetimes: a datetime is always truthy
OrElse(a, b) == IF a # None THEN a ELSE b

\* Python's round() of a float held in ticks, to whole seconds: half to even
Round(ticks) ==
    LET q == ticks \div TicksPerSec
        r == ticks % TicksPerSec
    IN  IF 2 * r < TicksPerSec THEN q
        ELSE IF 2 * r > TicksPerSec THEN q + 1
        ELSE IF q % 2 = 0 THEN q ELSE q + 1

Min(a, b) == IF a <= b THEN a ELSE b

----------------------------------------------------------------------------
(* backend/timer/services.py *)

\* the hours taken for minutes and the minutes for hours
convert_hours_minutes_to_seconds_swapped(time) == time[1] * 60 + time[2] * 3600

\* HH:MM, as <<HH, MM>>, to seconds
convert_hours_minutes_to_seconds(time) == time[1] * 3600 + time[2] * 60

\* the minutes not reduced by the whole hours
format_time_backwards_total_minutes(time) ==
    LET rounded_time == Round(time)
    IN  << rounded_time \div 3600, rounded_time \div 60, rounded_time % 60 >>

\* an elapsed time in ticks as HH:MM:SS, <<HH, MM, SS>>, rounded to the second
format_time_backwards(time) ==
    LET rounded_time == Round(time)
    IN  << rounded_time \div 3600, (rounded_time % 3600) \div 60, rounded_time % 60 >>

\* ZoneInfo(key).utcoffset, in ticks (standard time)
UtcOffset(local_time_region) ==
    IF local_time_region = "America/New_York" THEN 0 - 5 * 60 * MinuteTicks ELSE 0

\* an instant as the local wall-clock HH:MM:SS, rounded to the second
format_time(time, local_time_region) ==
    LET updated_time == (time + UtcOffset(local_time_region) + DayTicks) % DayTicks
        rounded_seconds == Round(updated_time)
    IN  << rounded_seconds \div 3600, (rounded_seconds % 3600) \div 60, rounded_seconds % 60 >>

calculate_start_time == clock

\* start_time + timedelta(seconds=duration_seconds), the duration in ticks
calculate_estimated_end_time(start_time, duration_ticks) == start_time + duration_ticks

\* calculate_remaining_time_for_pause clamped at zero
calculate_remaining_time_clamped(max_duration_ticks, elapsed_duration_ticks) ==
    IF max_duration_ticks - elapsed_duration_ticks < 0 THEN 0
    ELSE max_duration_ticks - elapsed_duration_ticks

calculate_remaining_time_for_pause(max_duration_ticks, elapsed_duration_ticks) ==
    max_duration_ticks - elapsed_duration_ticks

----------------------------------------------------------------------------
(* backend/models.py *)

\* str.strip() of a title
RECURSIVE LStrip(_)
LStrip(s) == IF s # <<>> /\ Head(s) = " " THEN LStrip(Tail(s)) ELSE s

RECURSIVE RStrip(_)
RStrip(s) ==
    IF s # <<>> /\ s[Len(s)] = " " THEN RStrip(SubSeq(s, 1, Len(s) - 1)) ELSE s

Strip(s) == RStrip(LStrip(s))

TitleMaxLen == 50

\* Assignment.validate_title: the stored title, or None for a ValueError
validate_title(value) ==
    LET cleaned_value == Strip(value)
    IN  IF 1 <= Len(cleaned_value) /\ Len(cleaned_value) <= TitleMaxLen
        THEN Some(cleaned_value) ELSE None

\* a duration of no seconds let through
validate_max_duration_allows_zero(value) ==
    IF 0 <= value /\ value <= 24 * 3600 THEN Some(value) ELSE None

\* Assignment.validate_max_duration: the stored value, or None for a ValueError
validate_max_duration(value) ==
    IF 1 <= value /\ value <= 24 * 3600 THEN Some(value) ELSE None

\* a new Assignment row with the column defaults
NewAssignment(title, max_duration, user_id) ==
    [ title |-> title, max_duration |-> max_duration, user_id |-> user_id,
      is_started |-> FALSE, is_paused |-> FALSE, is_complete |-> FALSE ]

\* a new AssignmentStatistic row as create_assignment builds it
NewAssignmentStatistic(assignment_id) ==
    [ assignment_id |-> assignment_id,
      start_time |-> None, elapsed_time |-> Some(0), end_time |-> None,
      last_paused_time |-> None, last_resumed_time |-> None,
      remaining_seconds |-> None, pause_count |-> 0 ]

\* assignment.max_duration (seconds) as a float in ticks
MaxTicks(a) == a.max_duration * TicksPerSec

----------------------------------------------------------------------------
(* backend/timer/queries.py *)

\* select(PublicUser).where(token == token): the ids of the rows found
get_user_by_token(token) ==
    { u \in DOMAIN public_users : public_users[u].token = token }

\* select(PublicUser.timezone).where(token == token).scalar_one_or_none()
get_user_timezone(token) ==
    IF get_user_by_token(token) = {} THEN None
    ELSE Some(public_users[CHOOSE u \in get_user_by_token(token) : TRUE].timezone)

\* select(Assignment).where(Assignment.id == assignment_id): the query has no
\* condition on the owner, whatever token the router hands it
get_assignment_by_id(assignment_id, user_token) ==
    { i \in DOMAIN assignments : i = assignment_id }

\* Assignment.assignment_statistics: the statistics row of an assignment
StatisticsOf(assignment_id) ==
    CHOOSE s \in DOMAIN assignment_statistics :
        assignment_statistics[s].assignment_id = assignment_id

----------------------------------------------------------------------------
(* backend/timer/routers.py *)

\* the response to a request; `body` holds the HH:MM:SS values returned
Reply(op, id, user_id, status, detail, body) ==
    /\ resp' = [ op |-> op, id |-> id, user_id |-> user_id,
                 status |-> status, detail |-> detail, body |-> body ]
    /\ pre' = tables

\* raise HTTPException (or an exception nobody catches): nothing is committed
Raise(op, id, user_id, status, detail) ==
    /\ Reply(op, id, user_id, status, detail, <<>>)
    /\ UNCHANGED <<assignments, assignment_statistics, next_id>>

\* db_session.add(assignment); db_session.add(statistics); commit()
Commit(id, assignment, statistics) ==
    /\ assignments' = [assignments EXCEPT ![id] = assignment]
    /\ assignment_statistics' =
           [assignment_statistics EXCEPT ![StatisticsOf(id)] = statistics]
    /\ UNCHANGED next_id

create_assignment(title, duration, user_id) ==
    LET user == get_user_by_token(user_id)
        max_duration_seconds == convert_hours_minutes_to_seconds(duration)
        valid_title == validate_title(title)
        valid_duration == validate_max_duration(max_duration_seconds)
    IN  /\ UNCHANGED <<clock, public_users, sessions>>
        /\ request' = [title |-> title, duration |-> duration]
        /\ IF user = {}
           THEN Raise("create", 0, user_id, 400, "User not found")
           ELSE IF valid_title = None
           THEN Raise("create", 0, user_id, 400, "Assignment title is required.")
           ELSE IF valid_duration = None
           THEN Raise("create", 0, user_id, 400, "Duration must be at least 1 minute.")
           ELSE /\ assignments' = assignments @@
                       (next_id :> NewAssignment(Val(valid_title), Val(valid_duration),
                                                 CHOOSE u \in user : TRUE))
                /\ assignment_statistics' = assignment_statistics @@
                       (next_id :> NewAssignmentStatistic(next_id))
                /\ next_id' = next_id + 1
                /\ Reply("create", next_id, user_id, 201, "", <<>>)

\* update_row that also stores the seconds of the revised duration
update_row_with_duration(assignment, title, duration) ==
    [assignment EXCEPT !.title = title,
                       !.max_duration = convert_hours_minutes_to_seconds(duration)]

\* update_row that also puts the assignment back to NotStarted
update_row_restarted(assignment, title, duration) ==
    [assignment EXCEPT !.title = title, !.is_started = FALSE, !.is_paused = FALSE,
                       !.is_complete = FALSE]

\* the row update commits: assignment.title = data.title (validated, hence
\* `title` stripped), data.duration being read nowhere
update_row(assignment, title, duration) == [assignment EXCEPT !.title = title]

update_assignment(id, title, duration, user_id) ==
    LET timezone == get_user_timezone(user_id)
        found == get_assignment_by_id(id, user_id)
        valid_title == validate_title(title)
    IN  /\ UNCHANGED <<clock, public_users, sessions>>
        /\ request' = [title |-> title, duration |-> duration]
        /\ IF timezone = None
           THEN Raise("update", id, user_id, 400, "User not found")
           ELSE IF found = {}
           THEN Raise("update", id, user_id, 404, "Assignment Not Found")
           ELSE IF valid_title = None
           THEN Raise("update", id, user_id, 500, "Internal Server Error")
           ELSE /\ assignments' =
                       [assignments EXCEPT
                           ![id] = update_row(assignments[id], Val(valid_title), duration)]
                /\ UNCHANGED <<assignment_statistics, next_id>>
                /\ Reply("update", id, user_id, 200, "", <<>>)

\* start_rejection without its check of is_started
start_rejection_unchecked(assignment) ==
    IF assignment.is_paused
    THEN "Assignment has already been started and is currently paused"
    ELSE IF assignment.is_complete THEN "Assignment has already been completed"
    ELSE ""

\* the guard of start: the detail of the HTTPException raised, "" when none is
start_rejection(assignment) ==
    IF assignment.is_started THEN "Assignment has already started"
    ELSE IF assignment.is_paused
    THEN "Assignment has already been started and is currently paused"
    ELSE IF assignment.is_complete THEN "Assignment has already been completed"
    ELSE ""

start_assignment(id, user_id) ==
    LET timezone == get_user_timezone(user_id)
        found == get_assignment_by_id(id, user_id)
    IN  /\ UNCHANGED <<clock, public_users, sessions>>
        /\ request' = NoRequest
        /\ IF timezone = None
           THEN Raise("start", id, user_id, 400, "User not found")
           ELSE IF found = {}
           THEN Raise("start", id, user_id, 404, "Assignment Not Found")
           ELSE
           LET assignment == assignments[id]
               statistics == assignment_statistics[StatisticsOf(id)]
               assignment_start_time == calculate_start_time
               estimated_end_time ==
                   calculate_estimated_end_time(assignment_start_time, MaxTicks(assignment))
           IN  IF start_rejection(assignment) # ""
               THEN Raise("start", id, user_id, 400, start_rejection(assignment))
               ELSE /\ Commit(id, [assignment EXCEPT !.is_started = TRUE],
                              [statistics EXCEPT !.start_time = Some(assignment_start_time)])
                    /\ Reply("start", id, user_id, 200, "",
                             << format_time(assignment_start_time, Val(timezone)),
                                format_time(estimated_end_time, Val(timezone)) >>)

\* pause_rejection without its check of is_paused
pause_rejection_replayed(assignment) ==
    IF ~assignment.is_started THEN "Assignment hasn't been started yet"
    ELSE IF assignment.is_complete THEN "Assignment has already been completed"
    ELSE ""

\* the guard of pause
pause_rejection(assignment) ==
    IF ~assignment.is_started THEN "Assignment hasn't been started yet"
    ELSE IF assignment.is_paused THEN "Assignment is already paused"
    ELSE IF assignment.is_complete THEN "Assignment has already been completed"
    ELSE ""

\* last_active_start_time that forgets the resume
last_active_start_time_from_start(statistics) == statistics.start_time

\* the instant the current active run began: last_resumed_time or start_time
last_active_start_time(statistics) ==
    OrElse(statistics.last_resumed_time, statistics.start_time)

\* statistics.elapsed_time or 0.0
elapsed_or_zero(statistics) ==
    IF statistics.elapsed_time = None THEN 0 ELSE Val(statistics.elapsed_time)

\* pause_statistics that stores the current run alone as the elapsed time
pause_statistics_overwrites(assignment, statistics, now) ==
    LET current_run_duration_seconds == now - Val(last_active_start_time(statistics))
    IN  [statistics EXCEPT
            !.elapsed_time = Some(current_run_duration_seconds),
            !.remaining_seconds =
                Some(calculate_remaining_time_for_pause(MaxTicks(assignment),
                                                        current_run_duration_seconds)),
            !.last_paused_time = Some(now),
            !.pause_count = @ + 1]

\* pause_statistics that does not store the remaining time
pause_statistics_without_remaining(assignment, statistics, now) ==
    LET current_run_duration_seconds == now - Val(last_active_start_time(statistics))
    IN  [statistics EXCEPT
            !.elapsed_time = Some(elapsed_or_zero(statistics) + current_run_duration_seconds),
            !.last_paused_time = Some(now),
            !.pause_count = @ + 1]

\* pause_statistics that does not count the pause
pause_statistics_uncounted(assignment, statistics, now) ==
    LET total_elapsed_seconds ==
            elapsed_or_zero(statistics) + (now - Val(last_active_start_time(statistics)))
    IN  [statistics EXCEPT
            !.elapsed_time = Some(total_elapsed_seconds),
            !.remaining_seconds =
                Some(calculate_remaining_time_for_pause(MaxTicks(assignment),
                                                        total_elapsed_seconds)),
            !.last_paused_time = Some(now)]

\* the statistics row pause commits at the instant `now`
pause_statistics(assignment, statistics, now) ==
    LET current_run_duration_seconds == now - Val(last_active_start_time(statistics))
        previously_elapsed_seconds == elapsed_or_zero(statistics)
        total_elapsed_seconds == previously_elapsed_seconds + current_run_duration_seconds
        remaining_time_seconds ==
            calculate_remaining_time_for_pause(MaxTicks(assignment), total_elapsed_seconds)
    IN  [statistics EXCEPT
            !.elapsed_time = Some(total_elapsed_seconds),
            !.remaining_seconds = Some(remaining_time_seconds),
            !.last_paused_time = Some(now),
            !.pause_count = @ + 1]

pause_assignment(id, user_id) ==
    LET timezone == get_user_timezone(user_id)
        found == get_assignment_by_id(id, user_id)
    IN  /\ UNCHANGED <<clock, public_users, sessions>>
        /\ request' = NoRequest
        /\ IF timezone = None
           THEN Raise("pause", id, user_id, 400, "User not found")
           ELSE IF found = {}
           THEN Raise("pause", id, user_id, 404, "Assignment Not Found")
           ELSE
           LET assignment == assignments[id]
               statistics == assignment_statistics[StatisticsOf(id)]
               paused == pause_statistics(assignment, statistics, clock)
           IN  IF pause_rejection(assignment) # ""
               THEN Raise("pause", id, user_id, 400, pause_rejection(assignment))
               ELSE IF last_active_start_time(statistics) = None
               THEN Raise("pause", id, user_id, 500, "Error occurred calculating pause time.")
               ELSE /\ Commit(id, [assignment EXCEPT !.is_paused = TRUE], paused)
                    /\ Reply("pause", id, user_id, 200, "",
                             << format_time_backwards(Val(paused.elapsed_time)) >>)

\* resume_rejection without its check of is_paused
resume_rejection_unchecked(assignment) ==
    IF ~assignment.is_started THEN "Assignment hasn't been started yet"
    ELSE IF assignment.is_complete THEN "Assignment has already been completed"
    ELSE ""

\* the guard of resume
resume_rejection(assignment) ==
    IF ~assignment.is_started THEN "Assignment hasn't been started yet"
    ELSE IF ~assignment.is_paused THEN "Assignment is already running"
    ELSE IF assignment.is_complete THEN "Assignment has already been completed"
    ELSE ""

\* resume_statistics that restarts the clock of the assignment
resume_statistics_restarted(statistics, now) ==
    [statistics EXCEPT !.last_resumed_time = Some(now), !.start_time = Some(now)]

\* resume_statistics that stamps the resume with the start of the assignment
resume_statistics_from_start(statistics, now) ==
    [statistics EXCEPT !.last_resumed_time = statistics.start_time]

\* the statistics row resume commits at the instant `now`
resume_statistics(statistics, now) ==
    [statistics EXCEPT !.last_resumed_time = Some(now)]

resume_assignment(id, user_id) ==
    LET timezone == get_user_timezone(user_id)
        found == get_assignment_by_id(id, user_id)
    IN  /\ UNCHANGED <<clock, public_users, sessions>>
        /\ request' = NoRequest
        /\ IF timezone = None
           THEN Raise("resume", id, user_id, 400, "User not found")
           ELSE IF found = {}
           THEN Raise("resume", id, user_id, 404, "Assignment Not Found")
           ELSE
           LET assignment == assignments[id]
               statistics == assignment_statistics[StatisticsOf(id)]
               new_estimated_end_time ==
                   calculate_estimated_end_time(clock, Val(statistics.remaining_seconds))
           IN  IF resume_rejection(assignment) # ""
               THEN Raise("resume", id, user_id, 400, resume_rejection(assignment))
               ELSE IF statistics.elapsed_time = None
               THEN Raise("resume", id, user_id, 500, "Error calculating remaining time")
               ELSE IF statistics.remaining_seconds = None
               THEN Raise("resume", id, user_id, 500, "Error calculating remaining time")
               ELSE /\ Commit(id, [assignment EXCEPT !.is_paused = FALSE],
                              resume_statistics(statistics, clock))
                    /\ Reply("resume", id, user_id, 200, "",
                             << format_time(new_estimated_end_time, Val(timezone)) >>)

\* complete_rejection without its check of is_complete
complete_rejection_repeated(assignment) ==
    IF ~assignment.is_started THEN "Assignment hasn't been started yet" ELSE ""

\* the guard of complete
complete_rejection(assignment) ==
    IF ~assignment.is_started THEN "Assignment hasn't been started yet"
    ELSE IF assignment.is_complete THEN "Assignment has already been completed"
    ELSE ""

\* complete_total_elapsed that measures the live run from start_time
complete_total_elapsed_from_start(assignment, statistics, now) ==
    IF ~assignment.is_paused
    THEN elapsed_or_zero(statistics) + (now - Val(statistics.start_time))
    ELSE elapsed_or_zero(statistics)

\* total_elapsed of complete: the recorded time, plus the live run when not paused
complete_total_elapsed(assignment, statistics, now) ==
    IF ~assignment.is_paused
    THEN elapsed_or_zero(statistics) + (now - Val(last_active_start_time(statistics)))
    ELSE elapsed_or_zero(statistics)

\* backdated_end_time that takes the instant of the call
backdated_end_time_now(now, excess_time) == now

\* the instant the budget ran out: now - timedelta(seconds=excess_time)
backdated_end_time(now, excess_time) == now - excess_time

\* auto_completed_end_time that back-dates a paused assignment as a running one
auto_completed_end_time_backdated(assignment, statistics, now, excess_time) ==
    Some(backdated_end_time(now, excess_time))

\* CASE 1, end_time: the last pause, or the back-dated instant when running
auto_completed_end_time(assignment, statistics, now, excess_time) ==
    IF assignment.is_paused THEN statistics.last_paused_time
    ELSE Some(backdated_end_time(now, excess_time))

\* never_paused_elapsed that truncates to the whole second, as int() would
never_paused_elapsed_truncated(assignment, statistics, now) ==
    Min((now - Val(statistics.start_time)) \div TicksPerSec, assignment.max_duration)
        * TicksPerSec

\* CASE 2, final_elapsed_time: min(round((now - start_time).total_seconds()),
\* max_duration), a whole number of seconds
never_paused_elapsed(assignment, statistics, now) ==
    Min(Round(now - Val(statistics.start_time)), assignment.max_duration) * TicksPerSec

\* resumed_elapsed that measures the run from start_time
resumed_elapsed_since_start(assignment, statistics, now) ==
    Min(Val(statistics.elapsed_time) + (now - Val(statistics.start_time)),
        MaxTicks(assignment))

\* CASE 3 after a resume, final_elapsed_time: the paused time plus the time
\* since the resume, at most max_duration
resumed_elapsed(assignment, statistics, now) ==
    LET time_since_resume == now - Val(statistics.last_resumed_time)
    IN  Min(Val(statistics.elapsed_time) + time_since_resume, MaxTicks(assignment))

\* CASE 2 and CASE 3: <<final_elapsed_time, end_time>> of a manual completion
manual_outcome(assignment, statistics, now) ==
    IF statistics.last_paused_time = None
    THEN \* CASE 2: never paused
         << Some(never_paused_elapsed(assignment, statistics, now)), Some(now) >>
    ELSE IF assignment.is_paused
    THEN \* CASE 3, still paused
         << statistics.elapsed_time, statistics.last_paused_time >>
    ELSE IF statistics.last_resumed_time # None
    THEN \* CASE 3, resumed after the pause
         << Some(resumed_elapsed(assignment, statistics, now)), Some(now) >>
    ELSE << statistics.elapsed_time, Some(now) >>

\* complete_outcome without CASE 1: no completion is clamped to the budget
complete_outcome_unclamped(assignment, statistics, now) ==
    manual_outcome(assignment, statistics, now)

\* <<final_elapsed_time, end_time>> of complete at the instant `now`, both optional
complete_outcome(assignment, statistics, now) ==
    LET total_elapsed == complete_total_elapsed(assignment, statistics, now)
        excess_time == total_elapsed - MaxTicks(assignment)
    IN  IF total_elapsed >= MaxTicks(assignment)
        THEN \* CASE 1: auto-completed
             << Some(MaxTicks(assignment)),
                auto_completed_end_time(assignment, statistics, now, excess_time) >>
        ELSE manual_outcome(assignment, statistics, now)

\* complete_flags that leaves is_paused as it was
complete_flags_keeps_paused(assignment) == [assignment EXCEPT !.is_complete = TRUE]

\* the flags complete commits
complete_flags(assignment) ==
    [assignment EXCEPT !.is_paused = FALSE, !.is_complete = TRUE]

\* complete_statistics that forgets to store end_time
complete_statistics_keeps_end(statistics, outcome) ==
    [statistics EXCEPT !.elapsed_time = outcome[1]]

\* the statistics row complete commits
complete_statistics(statistics, outcome) ==
    [statistics EXCEPT !.elapsed_time = outcome[1], !.end_time = outcome[2]]

\* CASE 3 after a resume adds the time since the resume to paused_elapsed_time:
\* a TypeError, which nobody catches, when the column is null
complete_type_error(assignment, statistics, now) ==
    /\ complete_total_elapsed(assignment, statistics, now) < MaxTicks(assignment)
    /\ statistics.last_paused_time # None
    /\ ~assignment.is_paused
    /\ statistics.last_resumed_time # None
    /\ statistics.elapsed_time = None

complete_assignment(id, user_id) ==
    LET found == get_assignment_by_id(id, user_id)
    IN  /\ UNCHANGED <<clock, public_users, sessions>>
        /\ request' = NoRequest
        /\ IF found = {}
           THEN Raise("complete", id, user_id, 404, "Assignment Not Found")
           ELSE
           LET assignment == assignments[id]
               statistics == assignment_statistics[StatisticsOf(id)]
               outcome == complete_outcome(assignment, statistics, clock)
           IN  IF complete_rejection(assignment) # ""
               THEN Raise("complete", id, user_id, 400, complete_rejection(assignment))
               ELSE IF statistics.start_time = None
               THEN Raise("complete", id, user_id, 500, "Error calculating start time")
               ELSE IF complete_type_error(assignment, statistics, clock)
               THEN Raise("complete", id, user_id, 500, "Internal Server Error")
               ELSE /\ Commit(id, complete_flags(assignment),
                              complete_statistics(statistics, outcome))
                    /\ Reply("complete", id, user_id, 200, "", <<>>)

\* delete(Assignment) where the id and the owner's token match: the ids deleted
delete_assignment_by_id(assignment_id, user_token) ==
    { i \in DOMAIN assignments :
        /\ i = assignment_id
        /\ assignments[i].user_id \in get_user_by_token(user_token) }

\* ForeignKey("assignments.id", ondelete="CASCADE"): the rows left of a table
\* when the assignments `gone` are deleted
Without(table, gone) == [ k \in { x \in DOMAIN table : ~gone[x] } |-> table[k] ]

delete_assignment(id, user_id) ==
    LET deleted == delete_assignment_by_id(id, user_id)
    IN  /\ UNCHANGED <<clock, public_users, sessions>>
        /\ request' = NoRequest
        /\ IF deleted = {}
           THEN Raise("delete", id, user_id, 404, "Assignment not found")
           ELSE /\ assignments' =
                       Without(assignments, [i \in DOMAIN assignments |-> i \in deleted])
                /\ assignment_statistics' =
                       Without(assignment_statistics,
                               [k \in DOMAIN assignment_statistics |->
                                   assignment_statistics[k].assignment_id \in deleted])
                /\ UNCHANGED next_id
                /\ Reply("delete", id, user_id, 204, "", <<>>)

----------------------------------------------------------------------------
(* The clock and the clients *)

\* an assignment that is started, not paused and not complete
Running(a) == a.is_started /\ ~a.is_paused /\ ~a.is_complete

NoResponse ==
    [ op |-> "none", id |-> 0, user_id |-> "", status |-> 0, detail |-> "", body |-> <<>> ]

\* an AsyncSession that has loaded nothing
IdleSession ==
    [ phase |-> "idle", op |-> "none", id |-> 0, user_id |-> "", status |-> 0,
      detail |-> "", loaded |-> <<>>, written |-> <<>>, body |-> <<>>, during |-> {} ]

\* time passes between two requests
Tick ==
    /\ \E t \in Instants : t > clock /\ clock' = t
    /\ resp' = NoResponse
    /\ pre' = tables
    /\ request' = NoRequest
    /\ UNCHANGED <<public_users, assignments, assignment_statistics, next_id, sessions>>

\* what an observer of the run adds to `history` in a step
Observe ==
    history' =
        [ id \in DOMAIN assignments' |->
            LET old == IF id \in DOMAIN history THEN history[id]
                       ELSE [active |-> 0, pauses |-> 0, exhausted |-> None]
                ran == IF id \in DOMAIN assignments /\ Running(assignments[id])
                       THEN clock' - clock ELSE 0
                accepted == IF resp'.op = "pause" /\ resp'.status = 200 /\ resp'.id = id
                            THEN 1 ELSE 0
                budget == MaxTicks(assignments'[id])
                \* the instant the time spent running reached the budget
                exhausted == IF old.exhausted = None /\ ran > 0 /\ old.active + ran >= budget
                             THEN Some(clock + (budget - old.active))
                             ELSE old.exhausted
            IN  [active |-> old.active + ran, pauses |-> old.pauses + accepted,
                 exhausted |-> exhausted] ]

\* the clients stop pausing an assignment after MaxPauses accepted pauses
MayPause(id) ==
    id \in DOMAIN assignments =>
        \/ ~Running(assignments[id])
        \/ assignment_statistics[StatisticsOf(id)].pause_count < MaxPauses

Init ==
    /\ clock = 0
    /\ public_users =
           (1 :> [token |-> TokenA, timezone |-> "UTC", token_expiry_time |-> DayTicks])
        @@ (2 :> [token |-> TokenB, timezone |-> "America/New_York",
                  token_expiry_time |-> DayTicks])
    /\ assignments = <<>>
    /\ assignment_statistics = <<>>
    /\ next_id = 1
    /\ resp = NoResponse
    /\ pre = tables
    /\ history = <<>>
    /\ sessions = [s \in Sessions |-> IdleSession]
    /\ request = NoRequest

\* the requests of the clients holding `tokens`
Requests(tokens, titles, durations) ==
    \/ \E title \in titles, duration \in durations, user_id \in tokens :
           next_id \in AssignmentIds /\ create_assignment(title, duration, user_id) /\ Observe
    \/ \E id \in AssignmentIds, title \in titles, duration \in durations, user_id \in tokens :
           update_assignment(id, title, duration, user_id) /\ Observe
    \/ \E id \in AssignmentIds, user_id \in tokens :
           start_assignment(id, user_id) /\ Observe
    \/ \E id \in AssignmentIds, user_id \in tokens :
           MayPause(id) /\ pause_assignment(id, user_id) /\ Observe
    \/ \E id \in AssignmentIds, user_id \in tokens :
           resume_assignment(id, user_id) /\ Observe
    \/ \E id \in AssignmentIds, user_id \in tokens :
           complete_assignment(id, user_id) /\ Observe
    \/ \E id \in AssignmentIds, user_id \in tokens :
           delete_assignment(id, user_id) /\ Observe

\* one client and its assignment, and a caller with no user row
Next ==
    \/ Tick /\ Observe
    \/ Requests({TokenA, TokenX}, Titles, Durations)

Spec == Init /\ [][Next]_vars

\* two clients, one owning the assignment, and a caller with no user row
NextOwners ==
    \/ Tick /\ Observe
    \/ Requests({TokenA, TokenB, TokenX}, {<<"a">>}, {<<0, 1>>})

SpecOwners == Init /\ [][NextOwners]_vars

----------------------------------------------------------------------------
(* backend/manage.py and the rows of several owners *)

\* the primary keys create_assignment hands out while two assignments are kept
StoreIds == {1, 2}

\* the titles submitted to the store: blank and padded
StoreTitles == { <<" ">>, <<" ", "b", " ">> }

\* the durations submitted to the store: none, minutes only, hours and minutes
StoreDurations == { <<0, 0>>, <<0, 2>>, <<1, 30>> }

\* no owner at all
cascade_assignments_none(expired) == {}

\* ForeignKey("users.id", ondelete="CASCADE"): the assignments that go with
\* the users `expired`
cascade_assignments(expired) ==
    { i \in DOMAIN assignments : assignments[i].user_id \in expired }

\* cleanup: delete(PublicUser).where(token_expiry_time < now), and the rows
\* the foreign keys take with them
cleanup ==
    LET expired == { u \in DOMAIN public_users :
                        public_users[u].token_expiry_time < clock }
        gone == cascade_assignments(expired)
    IN  /\ public_users' =
               Without(public_users, [u \in DOMAIN public_users |-> u \in expired])
        /\ assignments' = Without(assignments, [i \in DOMAIN assignments |-> i \in gone])
        /\ assignment_statistics' =
               Without(assignment_statistics,
                       [k \in DOMAIN assignment_statistics |->
                           assignment_statistics[k].assignment_id \in gone])
        /\ Reply("cleanup", 0, "", 0, "", <<>>)
        /\ request' = NoRequest
        /\ UNCHANGED <<clock, next_id, sessions>>

\* user 1 registered a minute less than a day before the epoch, user 2 at it
InitStore ==
    /\ clock = 0
    /\ public_users =
           (1 :> [token |-> TokenA, timezone |-> "UTC", token_expiry_time |-> MinuteTicks])
        @@ (2 :> [token |-> TokenB, timezone |-> "America/New_York",
                  token_expiry_time |-> DayTicks])
    /\ assignments = <<>>
    /\ assignment_statistics = <<>>
    /\ next_id = 1
    /\ resp = NoResponse
    /\ pre = tables
    /\ history = <<>>
    /\ sessions = [s \in Sessions |-> IdleSession]
    /\ request = NoRequest

\* two owners who create, retitle and delete assignments, and the cleanup job
NextStore ==
    \/ Tick /\ Observe
    \/ \E title \in StoreTitles, duration \in StoreDurations, user_id \in {TokenA, TokenB} :
           next_id \in StoreIds /\ create_assignment(title, duration, user_id) /\ Observe
    \/ \E id \in StoreIds, title \in StoreTitles, duration \in StoreDurations,
          user_id \in {TokenA, TokenB} :
           update_assignment(id, title, duration, user_id) /\ Observe
    \/ \E id \in StoreIds, user_id \in {TokenA, TokenB} :
           delete_assignment(id, user_id) /\ Observe
    \/ cleanup /\ Observe

SpecStore == InitStore /\ [][NextStore]_vars

----------------------------------------------------------------------------
(* The duration codec on its own: every HH:MM the request schemas admit is   *)
(* parsed and the seconds are formatted back.  A text is held as the tuple   *)
(* of its numeric fields, <<HH, MM>> or <<HH, MM, SS>>: the fields are       *)
(* printed with two digits and are below 100, so two texts are equal exactly *)
(* when their tuples are.                                                    *)

\* the texts matching ^(?:[01]\d|2[0-3]):[0-5]\d$
DurationTexts == { <<hh, mm>> : hh \in 0..23, mm \in 0..59 }

InitCodec ==
    /\ clock = 0
    /\ public_users = <<>>
    /\ assignments = <<>>
    /\ assignment_statistics = <<>>
    /\ next_id = 1
    /\ resp = NoResponse
    /\ pre = tables
    /\ history = <<>>
    /\ sessions = [s \in Sessions |-> IdleSession]
    /\ request \in { [title |-> <<>>, duration |-> d] : d \in DurationTexts }

\* format_time_backwards(convert_hours_minutes_to_seconds(duration))
format_parsed_duration ==
    /\ resp = NoResponse
    /\ resp' = [ NoResponse EXCEPT
                   !.op = "format",
                   !.body = << format_time_backwards(
                                  convert_hours_minutes_to_seconds(request.duration)
                                      * TicksPerSec) >> ]
    /\ pre' = tables
    /\ UNCHANGED <<clock, public_users, assignments, assignment_statistics, next_id,
                   history, sessions, request>>

NextCodec == format_parsed_duration

SpecCodec == InitCodec /\ [][NextCodec]_vars

----------------------------------------------------------------------------
(* Rows that violate what the handlers rely on.  No handler writes such a    *)
(* row; a defect or a statement issued outside the handlers does, and the    *)
(* handlers check for some of them.  The run begins half a second after the  *)
(* epoch on one assignment of a minute that is Running or Paused, whose      *)
(* statistics are those the handlers would have written with any of the      *)
(* nullable columns set to null.                                             *)

\* the nullable columns of AssignmentStatistic that the handlers read
NullableColumns ==
    { "start_time", "elapsed_time", "last_paused_time", "last_resumed_time",
      "remaining_seconds" }

\* the rows after start at 0; after start, pause at 1; after start, pause and
\* resume at 1
WrittenRows ==
    LET started == [NewAssignmentStatistic(1) EXCEPT !.start_time = Some(0)]
        assignment == NewAssignment(<<"a">>, 60, 1)
        paused == pause_statistics(assignment, started, 1)
        resumed == resume_statistics(paused, 1)
    IN  { << [assignment EXCEPT !.is_started = TRUE], started >>,
          << [assignment EXCEPT !.is_started = TRUE, !.is_paused = TRUE], paused >>,
          << [assignment EXCEPT !.is_started = TRUE], resumed >> }

\* `statistics` with the columns `nulled` set to null
Nulled(statistics, nulled) ==
    [ column \in DOMAIN statistics |->
        IF column \in nulled THEN None ELSE statistics[column] ]

InitCorrupt ==
    /\ clock = 1
    /\ public_users =
           (1 :> [token |-> TokenA, timezone |-> "UTC", token_expiry_time |-> DayTicks])
    /\ \E rows \in WrittenRows, nulled \in SUBSET NullableColumns :
           /\ assignments = (1 :> rows[1])
           /\ assignment_statistics = (1 :> Nulled(rows[2], nulled))
    /\ next_id = 2
    /\ resp = NoResponse
    /\ pre = tables
    /\ history = (1 :> [active |-> 0, pauses |-> 0, exhausted |-> None])
    /\ sessions = [s \in Sessions |-> IdleSession]
    /\ request = NoRequest

\* the owner pauses, resumes and completes the assignment
NextCorrupt ==
    \/ Tick /\ Observe
    \/ MayPause(1) /\ pause_assignment(1, TokenA) /\ Observe
    \/ resume_assignment(1, TokenA) /\ Observe
    \/ complete_assignment(1, TokenA) /\ Observe

SpecCorrupt == InitCorrupt /\ [][NextCorrupt]_vars

----------------------------------------------------------------------------
(* Requests in flight together.  get_db hands every request an AsyncSession  *)
(* of its own; a transition handler awaits its SELECTs, then checks and      *)
(* computes without awaiting, then awaits its commit.  No query locks the    *)
(* row (no with_for_update) and no column versions it.                       *)

TransitionOps == {"start", "pause", "resume", "complete"}

\* the guard of a transition handler on the flags it loaded
transition_rejection(op, assignment) ==
    IF op = "start" THEN start_rejection(assignment)
    ELSE IF op = "pause" THEN pause_rejection(assignment)
    ELSE IF op = "resume" THEN resume_rejection(assignment)
    ELSE complete_rejection(assignment)

\* the isinstance checks of a handler on the statistics it loaded: the detail
\* of the 500 raised, "" when none is
transition_fault(op, statistics) ==
    IF op = "pause" /\ last_active_start_time(statistics) = None
    THEN "Error occurred calculating pause time."
    ELSE IF op = "resume" /\ ( \/ statistics.elapsed_time = None
                              \/ statistics.remaining_seconds = None )
    THEN "Error calculating remaining time"
    ELSE IF op = "complete" /\ statistics.start_time = None
    THEN "Error calculating start time"
    ELSE ""

\* the rows a handler has assigned when it reaches its commit
transition_rows(op, assignment, statistics, now) ==
    IF op = "start"
    THEN << [assignment EXCEPT !.is_started = TRUE],
            [statistics EXCEPT !.start_time = Some(now)] >>
    ELSE IF op = "pause"
    THEN << [assignment EXCEPT !.is_paused = TRUE],
            pause_statistics(assignment, statistics, now) >>
    ELSE IF op = "resume"
    THEN << [assignment EXCEPT !.is_paused = FALSE], resume_statistics(statistics, now) >>
    ELSE << complete_flags(assignment),
            complete_statistics(statistics, complete_outcome(assignment, statistics, now)) >>

\* the values a handler returns after its commit
transition_body(op, assignment, statistics, timezone, now) ==
    IF op = "start"
    THEN << format_time(now, timezone),
            format_time(calculate_estimated_end_time(now, MaxTicks(assignment)), timezone) >>
    ELSE IF op = "pause"
    THEN << format_time_backwards(
                Val(pause_statistics(assignment, statistics, now).elapsed_time)) >>
    ELSE IF op = "resume"
    THEN << format_time(calculate_estimated_end_time(now, Val(statistics.remaining_seconds)),
                        timezone) >>
    ELSE <<>>

\* the sessions that have loaded their rows and not yet committed
InFlight == { t \in Sessions : sessions[t].phase = "pending" }

\* a handler up to its commit: it loads the rows, checks them and assigns the
\* new values to the objects of its session
BeginRequest(s, op, id, user_id) ==
    LET timezone == get_user_timezone(user_id)
        found == get_assignment_by_id(id, user_id)
        assignment == assignments[id]
        statistics == assignment_statistics[StatisticsOf(id)]
        Raised(status, detail) ==
            /\ Raise(op, id, user_id, status, detail)
            /\ sessions' = [sessions EXCEPT ![s] =
                   [IdleSession EXCEPT !.phase = "done", !.op = op, !.id = id,
                                       !.user_id = user_id, !.status = status,
                                       !.detail = detail, !.during = InFlight]]
    IN  /\ sessions[s].phase = "idle"
        /\ UNCHANGED <<clock, public_users>>
        /\ request' = NoRequest
        /\ IF op # "complete" /\ timezone = None
           THEN Raised(400, "User not found")
           ELSE IF found = {}
           THEN Raised(404, "Assignment Not Found")
           ELSE IF transition_rejection(op, assignment) # ""
           THEN Raised(400, transition_rejection(op, assignment))
           ELSE IF transition_fault(op, statistics) # ""
           THEN Raised(500, transition_fault(op, statistics))
           ELSE /\ sessions' = [sessions EXCEPT ![s] =
                       [ phase |-> "pending", op |-> op, id |-> id, user_id |-> user_id,
                         status |-> 0, detail |-> "",
                         loaded |-> <<assignment, statistics>>,
                         written |-> transition_rows(op, assignment, statistics, clock),
                         body |-> transition_body(op, assignment, statistics,
                                                  IF timezone = None THEN "UTC"
                                                  ELSE Val(timezone), clock),
                         during |-> InFlight ]]
                /\ resp' = NoResponse
                /\ pre' = tables
                /\ UNCHANGED <<assignments, assignment_statistics, next_id>>

\* the UPDATE a session's flush emits for a row: the columns whose assigned
\* value differs from the loaded one, written over the row as it now is
flush(row, loaded, written) ==
    [ column \in DOMAIN row |->
        IF written[column] # loaded[column] THEN written[column] ELSE row[column] ]

\* await db_session.commit() of a handler that began earlier, and its return
CommitRequest(s) ==
    LET session == sessions[s]
        id == session.id
    IN  /\ session.phase = "pending"
        /\ UNCHANGED <<clock, public_users>>
        /\ request' = NoRequest
        /\ IF id \notin DOMAIN assignments
           THEN \* the row is gone: the UPDATE matches no row
                /\ Raise(session.op, id, session.user_id, 500, "Internal Server Error")
                /\ sessions' = [sessions EXCEPT ![s].phase = "done", ![s].status = 500,
                                                ![s].detail = "Internal Server Error"]
           ELSE /\ Commit(id,
                          flush(assignments[id], session.loaded[1], session.written[1]),
                          flush(assignment_statistics[StatisticsOf(id)],
                                session.loaded[2], session.written[2]))
                /\ Reply(session.op, id, session.user_id, 200, "", session.body)
                /\ sessions' = [sessions EXCEPT ![s].phase = "done", ![s].status = 200,
                                                ![s].written = <<>>]

\* one client whose requests may overlap, in the first instants after the
\* epoch: each session serves one request in two steps; the requests that
\* bring the assignment to where the two find it are served in one
NextConcurrent ==
    \/ Tick /\ clock' <= MaxSub /\ Observe
    \/ next_id \in AssignmentIds /\ create_assignment(<<"a">>, <<0, 1>>, TokenA) /\ Observe
    \/ \E id \in AssignmentIds : start_assignment(id, TokenA) /\ Observe
    \/ \E id \in AssignmentIds : MayPause(id) /\ pause_assignment(id, TokenA) /\ Observe
    \/ \E id \in AssignmentIds : delete_assignment(id, TokenA) /\ Observe
    \/ \E s \in Sessions, op \in TransitionOps, id \in AssignmentIds :
           BeginRequest(s, op, id, TokenA) /\ Observe
    \/ \E s \in Sessions :
           CommitRequest(s) /\ Observe

SpecConcurrent == Init /\ [][NextConcurrent]_vars

----------------------------------------------------------------------------
(* Vocabulary of the properties *)

\* the lifecycle state the three flags encode
LifeState(a) ==
    IF ~a.is_started /\ ~a.is_paused /\ ~a.is_complete THEN "NotStarted"
    ELSE IF a.is_started /\ ~a.is_paused /\ ~a.is_complete THEN "Running"
    ELSE IF a.is_started /\ a.is_paused /\ ~a.is_complete THEN "Paused"
    ELSE IF a.is_started /\ ~a.is_paused /\ a.is_complete THEN "Complete"
    ELSE "Invalid"

\* the statistics row of assignment `id` in a statistics table
StatIn(table, id) == table[CHOOSE k \in DOMAIN table : table[k].assignment_id = id]

\* the rows the last request found and left
PreA == pre[1][resp.id]

PreS == StatIn(pre[2], resp.id)

PostA == assignments[resp.id]

PostS == StatIn(assignment_statistics, resp.id)

\* the last request was `op`, came from a known user and found its assignment,
\* so that it was decided by the guard on the lifecycle state or later
Reached(op) ==
    /\ resp.op = op
    /\ resp.id \in DOMAIN pre[1]
    /\ resp.detail # "User not found"

Accepted(op) == resp.op = op /\ resp.status = 200

TransitionDetails ==
    { "Assignment has already started",
      "Assignment has already been started and is currently paused",
      "Assignment has already been completed",
      "Assignment hasn't been started yet",
      "Assignment is already paused",
      "Assignment is already running" }

\* the last request was rejected by the guard on the lifecycle state
InvalidTransition == resp.status = 400 /\ resp.detail \in TransitionDetails

\* the rejected request committed nothing
NothingChanged == <<assignments, assignment_statistics>> = pre

----------------------------------------------------------------------------
(* Properties *)

\* C1: a start that reaches the guard is accepted exactly when the assignment
\* is NotStarted; an accepted start sets is_started and start_time = now and
\* leaves the assignment Running; a start on an assignment that was started
\* before is rejected as an invalid transition and changes no field.
C1_StartOnlyFromNotStarted ==
    Reached("start") =>
        /\ (resp.status = 200) <=> (LifeState(PreA) = "NotStarted")
        /\ resp.status = 200 =>
               /\ PostA.is_started
               /\ PostS.start_time = Some(clock)
               /\ LifeState(PostA) = "Running"
        /\ resp.status # 200 => InvalidTransition /\ NothingChanged
        /\ PreS.start_time # None => InvalidTransition /\ NothingChanged

\* a second start, after time has passed, is rejected
C1_Witness ==
    /\ Reached("start")
    /\ PreS.start_time # None
    /\ Val(PreS.start_time) < clock
    /\ resp.status = 400

\* C2: a pause on a NotStarted, Paused or Complete assignment is rejected as
\* an invalid transition and leaves every flag and statistic unchanged; a
\* replayed pause is not applied a second time.
C2_PauseRejectedUnlessRunning ==
    (Reached("pause") /\ LifeState(PreA) \in {"NotStarted", "Paused", "Complete"}) =>
        /\ InvalidTransition
        /\ NothingChanged
        /\ PostS.pause_count = PreS.pause_count
        /\ PostS.elapsed_time = PreS.elapsed_time

\* a pause replayed on a Paused assignment after time has passed
C2_Witness ==
    /\ Reached("pause")
    /\ LifeState(PreA) = "Paused"
    /\ Val(PreS.last_paused_time) < clock
    /\ resp.detail = "Assignment is already paused"

\* C3: a resume is accepted only on a Paused assignment; on a NotStarted,
\* Running (never paused or resumed) or Complete one it is rejected as an
\* invalid transition and leaves all fields unchanged.
C3_ResumeOnlyFromPaused ==
    Reached("resume") =>
        /\ resp.status = 200 => LifeState(PreA) = "Paused"
        /\ LifeState(PreA) \in {"NotStarted", "Running", "Complete"} =>
               InvalidTransition /\ NothingChanged

\* a resume on a Running assignment that was never paused
C3_Witness ==
    /\ Reached("resume")
    /\ LifeState(PreA) = "Running"
    /\ PreS.pause_count = 0
    /\ resp.status = 400

\* C4: complete is rejected as an invalid transition from NotStarted and
\* accepted from Running and from Paused; every accepted complete leaves
\* is_paused false and is_complete true.
C4_CompleteFromRunningOrPaused ==
    Reached("complete") =>
        /\ LifeState(PreA) = "NotStarted" => InvalidTransition /\ NothingChanged
        /\ LifeState(PreA) \in {"Running", "Paused"} => resp.status = 200
        /\ resp.status = 200 => ~PostA.is_paused /\ PostA.is_complete

\* a complete accepted on a Paused assignment
C4_Witness ==
    /\ Accepted("complete")
    /\ LifeState(PreA) = "Paused"
    /\ PostA.is_complete

\* C5: once an assignment is Complete, every start, pause, resume and complete
\* on it is rejected, and no request changes its flags or its statistics.
C5_CompleteIsTerminal ==
    \A id \in DOMAIN pre[1] :
        pre[1][id].is_complete =>
            /\ (resp.id = id /\ resp.op \in {"start", "pause", "resume", "complete"}) =>
                   /\ resp.status >= 400
                   /\ Reached(resp.op) => InvalidTransition
            /\ id \in DOMAIN assignments =>
                   /\ assignments[id].is_started = pre[1][id].is_started
                   /\ assignments[id].is_paused = pre[1][id].is_paused
                   /\ assignments[id].is_complete = pre[1][id].is_complete
                   /\ StatIn(assignment_statistics, id) = StatIn(pre[2], id)

\* a pause sent to a Complete assignment that had been paused before
C5_Witness ==
    /\ Reached("pause")
    /\ PreA.is_complete
    /\ PreS.pause_count > 0
    /\ resp.status = 400

\* C6: in every reachable state the flags of every assignment encode one of
\* NotStarted, Running, Paused, Complete.
C6_FlagsEncodeOneState ==
    \A id \in DOMAIN assignments : LifeState(assignments[id]) # "Invalid"

\* a Paused assignment was completed
C6_Witness ==
    /\ Accepted("complete")
    /\ PreA.is_paused
    /\ LifeState(PostA) = "Complete"

\* the anchor of a run: last_resumed_time if set, start_time otherwise
Anchor(statistics) ==
    IF statistics.last_resumed_time # None THEN Val(statistics.last_resumed_time)
    ELSE Val(statistics.start_time)

\* C7: a pause on a Running assignment is accepted; it adds now - anchor to
\* elapsed_seconds, stores remaining_seconds = max_duration_seconds -
\* elapsed_seconds unclamped (<= 0 once the budget has lapsed), sets
\* last_paused_time = now, adds exactly 1 to pause_count, and leaves the
\* assignment Paused, never Complete.
C7_PauseAccounting ==
    (Reached("pause") /\ LifeState(PreA) = "Running") =>
        /\ resp.status = 200
        /\ PostS.elapsed_time = Some(Val(PreS.elapsed_time) + (clock - Anchor(PreS)))
        /\ PostS.remaining_seconds = Some(MaxTicks(PreA) - Val(PostS.elapsed_time))
        /\ Val(PostS.elapsed_time) >= MaxTicks(PreA) => Val(PostS.remaining_seconds) <= 0
        /\ PostS.last_paused_time = Some(clock)
        /\ PostS.pause_count = PreS.pause_count + 1
        /\ LifeState(PostA) = "Paused"
        /\ PostS.end_time = None

\* a pause after a resume, taken when the budget had already lapsed
C7_Witness ==
    /\ Accepted("pause")
    /\ PreS.last_resumed_time # None
    /\ Val(PostS.remaining_seconds) < 0
    /\ LifeState(PostA) = "Paused"

\* C8: while an assignment is Paused, its elapsed_seconds is the time it has
\* spent Running since its start, the time spent Paused not counted, and in
\* every state pause_count is the number of pause requests accepted.
C8_ElapsedIsActiveTime ==
    \A id \in DOMAIN assignments :
        LET a == assignments[id]
            st == StatIn(assignment_statistics, id)
        IN  /\ st.pause_count = history[id].pauses
            /\ LifeState(a) = "Paused" => st.elapsed_time = Some(history[id].active)

\* the second pause of an assignment that has spent time paused and time running
C8_Witness ==
    /\ Accepted("pause")
    /\ PostS.pause_count = 2
    /\ Val(PostS.elapsed_time) > 0
    /\ Val(PostS.elapsed_time) < clock - Val(PostS.start_time)
    /\ Val(PostS.elapsed_time) > Val(PreS.elapsed_time)

\* C9: a resume on a Paused assignment is accepted; it sets last_resumed_time
\* = now and is_paused = false, returns now + remaining_seconds as the new
\* estimated end time (formatted in the user's timezone), and leaves
\* elapsed_seconds, remaining_seconds, pause_count, last_paused_time,
\* start_time and end_time unchanged.
C9_ResumeFrame ==
    (Reached("resume") /\ LifeState(PreA) = "Paused") =>
        /\ resp.status = 200
        /\ PostS.last_resumed_time = Some(clock)
        /\ ~PostA.is_paused
        /\ resp.body =
               << format_time(clock + Val(PreS.remaining_seconds),
                              Val(get_user_timezone(resp.user_id))) >>
        /\ PostS.elapsed_time = PreS.elapsed_time
        /\ PostS.remaining_seconds = PreS.remaining_seconds
        /\ PostS.pause_count = PreS.pause_count
        /\ PostS.last_paused_time = PreS.last_paused_time
        /\ PostS.start_time = PreS.start_time
        /\ PostS.end_time = PreS.end_time

\* a resume some time after the pause, of an assignment with budget left
C9_Witness ==
    /\ Accepted("resume")
    /\ Val(PreS.last_paused_time) < clock
    /\ Val(PreS.remaining_seconds) > 0
    /\ Val(PreS.start_time) > 0

\* C10: a complete on a Running, never-paused assignment at least
\* max_duration_seconds after its start stores elapsed_seconds =
\* max_duration_seconds and end_time = start_time + max_duration_seconds.
C10_AutoCompleteNeverPaused ==
    ( /\ Accepted("complete")
      /\ LifeState(PreA) = "Running"
      /\ PreS.pause_count = 0
      /\ clock - Val(PreS.start_time) >= MaxTicks(PreA) ) =>
        /\ PostS.elapsed_time = Some(MaxTicks(PreA))
        /\ PostS.end_time = Some(Val(PreS.start_time) + MaxTicks(PreA))

\* a complete called after the budget of a never-paused assignment ran out
C10_Witness ==
    /\ Accepted("complete")
    /\ LifeState(PreA) = "Running"
    /\ PreS.pause_count = 0
    /\ clock - Val(PreS.start_time) > MaxTicks(PreA)
    /\ PostS.end_time # Some(clock)

\* C11: a complete accepted on a Running assignment whose recorded elapsed
\* time plus the time since the anchor is at least max_duration_seconds stores
\* as end_time the instant at which the time the assignment has spent running
\* reached max_duration_seconds, whatever pauses and resumes came before.
C11_EndTimeIsExhaustionInstant ==
    ( /\ Accepted("complete")
      /\ LifeState(PreA) = "Running"
      /\ complete_total_elapsed(PreA, PreS, clock) >= MaxTicks(PreA) ) =>
        PostS.end_time = history[resp.id].exhausted

\* C12: a complete on a Paused assignment whose recorded elapsed_seconds is at
\* least max_duration_seconds stores elapsed_seconds = max_duration_seconds
\* exactly and end_time = last_paused_time.
C12_PausedAutoComplete ==
    ( /\ Accepted("complete")
      /\ LifeState(PreA) = "Paused"
      /\ Val(PreS.elapsed_time) >= MaxTicks(PreA) ) =>
        /\ PostS.elapsed_time = Some(MaxTicks(PreA))
        /\ PostS.end_time = PreS.last_paused_time
        /\ PostS.end_time # None

\* a complete of an assignment paused after its budget had run out
C12_Witness ==
    /\ Accepted("complete")
    /\ LifeState(PreA) = "Paused"
    /\ Val(PreS.elapsed_time) > MaxTicks(PreA)
    /\ PostS.elapsed_time # PreS.elapsed_time

\* a complete accepted on a Running, never-paused assignment before its budget
\* is exhausted
NeverPausedManual ==
    /\ Accepted("complete")
    /\ LifeState(PreA) = "Running"
    /\ PreS.pause_count = 0
    /\ clock - Val(PreS.start_time) < MaxTicks(PreA)

\* C13 as stated: a complete on a Running, never-paused assignment before the
\* budget is exhausted stores elapsed_seconds = now - start_time, which is
\* below max_duration_seconds, and end_time = now.
C13_NeverPausedManualExact ==
    NeverPausedManual =>
        /\ PostS.elapsed_time = Some(clock - Val(PreS.start_time))
        /\ Val(PostS.elapsed_time) < MaxTicks(PreA)
        /\ PostS.end_time = Some(clock)

\* C13, amended: such a complete stores as elapsed_seconds the whole number of
\* seconds nearest to now - start_time, the even one of two equally near, which
\* is at most max_duration_seconds, and end_time = now.
C13_NeverPausedManualRounded ==
    NeverPausedManual =>
        LET exact == clock - Val(PreS.start_time)
            stored == Val(PostS.elapsed_time)
            off == IF stored >= exact THEN stored - exact ELSE exact - stored
        IN  /\ stored % TicksPerSec = 0
            /\ 2 * off <= TicksPerSec
            /\ 2 * off = TicksPerSec => (stored \div TicksPerSec) % 2 = 0
            /\ stored <= MaxTicks(PreA)
            /\ PostS.end_time = Some(clock)

\* a complete a fraction of a second short of the budget, stored as the budget
C13_Witness ==
    /\ NeverPausedManual
    /\ (clock - Val(PreS.start_time)) % TicksPerSec # 0
    /\ PostS.elapsed_time = Some(MaxTicks(PreA))

\* C14: a complete on a previously paused assignment before its budget is
\* exhausted: when Paused, it keeps elapsed_seconds as the last pause froze it
\* and sets end_time = last_paused_time; when Running after a resume, it stores
\* elapsed_seconds + (now - last_resumed_time) and end_time = now.
C14_PreviouslyPausedManual ==
    (Accepted("complete") /\ PreS.pause_count > 0) =>
        /\ ( /\ LifeState(PreA) = "Paused"
             /\ Val(PreS.elapsed_time) < MaxTicks(PreA) ) =>
               /\ PostS.elapsed_time = PreS.elapsed_time
               /\ PostS.end_time = PreS.last_paused_time
        /\ ( /\ LifeState(PreA) = "Running"
             /\ Val(PreS.elapsed_time) + (clock - Val(PreS.last_resumed_time))
                    < MaxTicks(PreA) ) =>
               /\ PostS.elapsed_time =
                      Some(Val(PreS.elapsed_time) + (clock - Val(PreS.last_resumed_time)))
               /\ PostS.end_time = Some(clock)

\* a complete some time after the resume of an assignment that had run before
\* its pause
C14_Witness ==
    /\ Accepted("complete")
    /\ LifeState(PreA) = "Running"
    /\ PreS.pause_count > 0
    /\ Val(PreS.elapsed_time) > 0
    /\ Val(PreS.last_resumed_time) < clock
    /\ Val(PostS.elapsed_time) < MaxTicks(PreA)

\* C15: in every Complete state elapsed_seconds is at most
\* max_duration_seconds.
C15_CompleteWithinBudget ==
    \A id \in DOMAIN assignments :
        assignments[id].is_complete =>
            LET st == StatIn(assignment_statistics, id)
            IN  /\ st.elapsed_time # None
                /\ Val(st.elapsed_time) <= MaxTicks(assignments[id])

\* a complete of an assignment resumed after a pause that recorded an overrun
C15_Witness ==
    /\ Accepted("complete")
    /\ LifeState(PreA) = "Running"
    /\ PreS.last_resumed_time # None
    /\ Val(PreS.elapsed_time) > MaxTicks(PreA)
    /\ PostS.elapsed_time = Some(MaxTicks(PreA))

\* the last request was an accepted transition of the timer
AcceptedTransition ==
    resp.op \in {"start", "pause", "resume", "complete"} /\ resp.status = 200

\* C16 as stated: no accepted transition, the final complete included, stores
\* an elapsed_seconds smaller than the one stored before it.
C16_ElapsedNeverDecreases ==
    AcceptedTransition => Val(PostS.elapsed_time) >= Val(PreS.elapsed_time)

\* C16, amended: no accepted start, pause or resume stores a smaller
\* elapsed_seconds than the one stored before it; nor does an accepted
\* complete, unless the recorded elapsed_seconds exceeds max_duration_seconds,
\* and then it stores max_duration_seconds.
C16_ElapsedDecreasesOnlyByClamp ==
    AcceptedTransition =>
        \/ Val(PostS.elapsed_time) >= Val(PreS.elapsed_time)
        \/ /\ resp.op = "complete"
           /\ Val(PreS.elapsed_time) > MaxTicks(PreA)
           /\ PostS.elapsed_time = Some(MaxTicks(PreA))

\* a complete, after two pauses that each added a run, that clamps the
\* recorded overrun
C16_Witness ==
    /\ Accepted("complete")
    /\ PreS.pause_count = 2
    /\ Val(PreS.elapsed_time) > MaxTicks(PreA)
    /\ Val(PostS.elapsed_time) < Val(PreS.elapsed_time)

\* C17: start_time is written by the accepted start alone and never changed
\* by pause, resume, complete or update; end_time is null in every state that
\* is not Complete, is set by the accepted complete and never changes after.
C17_TimesWrittenOnce ==
    /\ \A id \in DOMAIN assignments :
           LET st == StatIn(assignment_statistics, id)
           IN  /\ (st.start_time # None) <=> assignments[id].is_started
               /\ (st.end_time # None) <=> assignments[id].is_complete
    /\ \A id \in DOMAIN assignments \cap DOMAIN pre[1] :
           LET before == StatIn(pre[2], id)
               after == StatIn(assignment_statistics, id)
           IN  /\ IF Accepted("start") /\ resp.id = id
                  THEN before.start_time = None /\ after.start_time = Some(clock)
                  ELSE after.start_time = before.start_time
               /\ IF Accepted("complete") /\ resp.id = id
                  THEN before.end_time = None /\ after.end_time # None
                  ELSE after.end_time = before.end_time

\* a complete, after a pause and a resume, of an assignment started earlier
C17_Witness ==
    /\ Accepted("complete")
    /\ PreS.last_resumed_time # None
    /\ Val(PreS.start_time) < clock
    /\ PostS.start_time = PreS.start_time
    /\ PostS.end_time # None

\* two requests that were between their read and their commit together
Concurrent(s, t) == t \in sessions[s].during \/ s \in sessions[t].during

\* C18: of two pause requests for the same Running assignment that are
\* processed concurrently at most one is accepted and the other is rejected as
\* an invalid transition: they do not both compute the elapsed time from the
\* same snapshot.
C18_ConcurrentPausesSerialized ==
    \A s, t \in Sessions :
        ( /\ s # t
          /\ sessions[s].phase = "done" /\ sessions[t].phase = "done"
          /\ sessions[s].op = "pause" /\ sessions[t].op = "pause"
          /\ sessions[s].id = sessions[t].id
          /\ Concurrent(s, t)
          /\ sessions[s].status = 200 ) =>
            /\ sessions[t].status = 400
            /\ sessions[t].detail \in TransitionDetails
            /\ sessions[t].loaded # sessions[s].loaded

\* C19: the requests processed concurrently on one assignment leave what some
\* serial execution of them would: no assignment is ever both paused and
\* complete, and the flags and statistics of a Complete assignment are not
\* modified by a request that read it before it was completed.
C19_TransitionsSerialized ==
    /\ \A id \in DOMAIN assignments :
           ~(assignments[id].is_paused /\ assignments[id].is_complete)
    /\ \A id \in DOMAIN assignments \cap DOMAIN pre[1] :
           pre[1][id].is_complete =>
               /\ assignments[id].is_started = pre[1][id].is_started
               /\ assignments[id].is_paused = pre[1][id].is_paused
               /\ assignments[id].is_complete = pre[1][id].is_complete
               /\ StatIn(assignment_statistics, id) = StatIn(pre[2], id)

\* the last request named an assignment that does not exist, or one whose
\* owner does not hold the token presented
ForeignRequest ==
    /\ resp.op \in TransitionOps \cup {"update", "delete"}
    /\ \/ resp.id \notin DOMAIN pre[1]
       \/ pre[1][resp.id].user_id \notin get_user_by_token(resp.user_id)

\* the answer to an unknown assignment id or an unknown owner token
NotFound ==
    \/ resp.status = 404
    \/ resp.status = 400 /\ resp.detail = "User not found"

\* C20: a start, pause, resume, complete, update or delete that names an
\* unknown assignment id, or an assignment owned by another token than the one
\* presented, is rejected as NotFound and changes no field of any assignment
\* or statistic.
C20_ForeignRequestsNotFound == ForeignRequest => NotFound /\ NothingChanged

\* a pause accepted from a user who does not own the Running assignment
C20_Witness ==
    /\ ForeignRequest
    /\ Accepted("pause")
    /\ resp.user_id = TokenB
    /\ LifeState(PreA) = "Running"
    /\ LifeState(PostA) = "Paused"

\* a run of n spaces
Padding(n) == [i \in 1..n |-> " "]

\* `stored` is `submitted` without the spaces around it
Trimmed(submitted, stored) ==
    /\ stored # <<>> => stored[1] # " " /\ stored[Len(stored)] # " "
    /\ \E l, r \in 0..Len(submitted) : submitted = Padding(l) \o stored \o Padding(r)

Blank(title) == \A i \in DOMAIN title : title[i] = " "

\* HH*3600 + MM*60 of the duration submitted
SubmittedSeconds == request.duration[1] * 3600 + request.duration[2] * 60

\* the rows of the statistics table that belong to assignment `id`
StatisticsRows(id) ==
    { k \in DOMAIN assignment_statistics : assignment_statistics[k].assignment_id = id }

\* a create request of a known user with a title that is not blank and a
\* duration of 00:01 at least
ValidCreate ==
    /\ resp.op = "create"
    /\ get_user_by_token(resp.user_id) # {}
    /\ ~Blank(request.title) /\ Len(request.title) <= 50
    /\ 1 <= SubmittedSeconds /\ SubmittedSeconds <= 24 * 3600

InvalidCreate ==
    /\ resp.op = "create"
    /\ Blank(request.title) \/ SubmittedSeconds = 0

\* C22: a create with a duration of 00:00 or with a title that is empty or
\* whitespace is rejected with status 400 before anything is stored: the
\* assignments and statistics that exist are unchanged and none is added.
C22_InvalidCreateRejected ==
    InvalidCreate =>
        /\ resp.status = 400
        /\ NothingChanged
        /\ get_user_by_token(resp.user_id) # {} =>
               resp.detail \in { "Assignment title is required.",
                                 "Duration must be at least 1 minute." }

\* a create with 00:00 and a good title is rejected while an assignment exists
C22_Witness ==
    /\ InvalidCreate
    /\ ~Blank(request.title)
    /\ SubmittedSeconds = 0
    /\ DOMAIN assignments # {}
    /\ resp.status = 400
    /\ resp.detail = "Duration must be at least 1 minute."

\* the codec has formatted the seconds parsed from a text of 00:01 to 23:59
RoundTrip == resp.op = "format" /\ request.duration # <<0, 0>>

\* C23: formatting the seconds parsed from a duration text s of 00:01 to
\* 23:59 gives s back.
C23_FormatOfParseIsIdentity == RoundTrip => Val(resp.body) = request.duration

\* C23, amended: formatting the seconds parsed from a duration text HH:MM of
\* 00:01 to 23:59 gives HH:MM:00, the text followed by a seconds field of
\* zero.
C23_FormatOfParseAppendsSeconds ==
    RoundTrip => Val(resp.body) = request.duration \o <<0>>

\* 23:59 comes back as 23:59:00
C23_Witness ==
    /\ RoundTrip
    /\ request.duration = <<23, 59>>
    /\ Val(resp.body) = <<23, 59, 0>>

\* C24: an update accepted from the owner replaces the title by the revised
\* title without the whitespace around it and max_duration by the seconds of
\* the revised duration.
C24_UpdateReplacesTitleAndDuration ==
    ( /\ Accepted("update")
      /\ PreA.user_id \in get_user_by_token(resp.user_id)
      /\ 1 <= SubmittedSeconds /\ SubmittedSeconds <= 24 * 3600 ) =>
        /\ Trimmed(request.title, PostA.title)
        /\ PostA.max_duration = SubmittedSeconds

\* an accepted update with a duration of 01:30 leaves the 120 seconds stored
C24_Witness ==
    /\ Accepted("update")
    /\ PreA.user_id \in get_user_by_token(resp.user_id)
    /\ request.duration = <<1, 30>>
    /\ PreA.max_duration = 120
    /\ PostA.max_duration = 120
    /\ PostA.title = <<"b">>

\* C25: after any sequence of creates, deletes and cleanups of expired owners
\* every Assignment has exactly one statistic and an owner that exists, and no
\* statistic is left without its Assignment.
C25_NoOrphans ==
    /\ \A id \in DOMAIN assignments :
           /\ Cardinality(StatisticsRows(id)) = 1
           /\ assignments[id].user_id \in DOMAIN public_users
    /\ \A k \in DOMAIN assignment_statistics :
           assignment_statistics[k].assignment_id \in DOMAIN assignments

\* the cleanup removed an expired owner and their assignment and kept another
\* owner's
C25_Witness ==
    /\ resp.op = "cleanup"
    /\ 1 \notin DOMAIN public_users
    /\ \E id \in DOMAIN pre[1] : pre[1][id].user_id = 1 /\ id \notin DOMAIN assignments
    /\ \E id \in DOMAIN assignments : assignments[id].user_id = 2

\* the statistics rows that record a resume
Resumed ==
    { k \in DOMAIN assignment_statistics :
        assignment_statistics[k].last_resumed_time # None }

\* C26: in every state in which last_resumed_time is set it is later than
\* last_paused_time, also in the Paused state reached by pausing again after a
\* resume.
C26_ResumedLaterThanPaused ==
    \A k \in Resumed :
        /\ assignment_statistics[k].last_paused_time # None
        /\ Val(assignment_statistics[k].last_resumed_time)
               > Val(assignment_statistics[k].last_paused_time)

\* C26, amended: in every state in which last_resumed_time is set,
\* last_paused_time is set too; while the assignment is Running
\* last_resumed_time is not earlier than last_paused_time, and while it is
\* Paused, having been paused again after the resume, last_paused_time is not
\* earlier than last_resumed_time.
C26_LatestOfPauseAndResume ==
    \A k \in Resumed :
        LET statistics == assignment_statistics[k]
            state == LifeState(assignments[statistics.assignment_id])
        IN  /\ statistics.last_paused_time # None
            /\ state = "Running" =>
                   Val(statistics.last_resumed_time) >= Val(statistics.last_paused_time)
            /\ state = "Paused" =>
                   Val(statistics.last_paused_time) >= Val(statistics.last_resumed_time)

\* an assignment paused again a minute after its resume
C26_Witness ==
    /\ Accepted("pause")
    /\ PreS.last_resumed_time # None
    /\ LifeState(PostA) = "Paused"
    /\ Val(PostS.last_paused_time) >= Val(PostS.last_resumed_time) + MinuteTicks

\* the last request was an accepted complete of an assignment never paused
NeverPausedComplete == Accepted("complete") /\ PreS.last_paused_time = None

\* C27: after every accepted complete start_time + elapsed_time <= end_time <=
\* the instant of the call, and end_time = start_time + elapsed_time when the
\* assignment was never paused.
C27_EndTimeConsistent ==
    Accepted("complete") =>
        /\ Val(PostS.start_time) + Val(PostS.elapsed_time) <= Val(PostS.end_time)
        /\ Val(PostS.end_time) <= clock
        /\ PreS.last_paused_time = None =>
               Val(PostS.end_time) = Val(PostS.start_time) + Val(PostS.elapsed_time)

\* C27, amended: after every accepted complete end_time <= the instant of the
\* call; start_time + elapsed_time <= end_time when the assignment was paused
\* at least once; when it was never paused, end_time = start_time +
\* elapsed_time if the budget was exhausted, and otherwise end_time is the
\* instant of the call and start_time + elapsed_time, the elapsed time being
\* rounded to the whole second, is within half a second of it.
C27_EndTimeConsistentToRounding ==
    Accepted("complete") =>
        LET start_time == Val(PostS.start_time)
            elapsed_time == Val(PostS.elapsed_time)
            end_time == Val(PostS.end_time)
        IN  /\ end_time <= clock
            /\ PreS.last_paused_time # None => start_time + elapsed_time <= end_time
            /\ (PreS.last_paused_time = None /\ clock - start_time >= MaxTicks(PreA)) =>
                   end_time = start_time + elapsed_time
            /\ (PreS.last_paused_time = None /\ clock - start_time < MaxTicks(PreA)) =>
                   /\ end_time = clock
                   /\ 2 * (start_time + elapsed_time - end_time) <= TicksPerSec
                   /\ 2 * (end_time - start_time - elapsed_time) <= TicksPerSec

\* a complete after a pause and a resume, with time run in both stretches
C27_Witness ==
    /\ Accepted("complete")
    /\ PreS.last_resumed_time # None
    /\ LifeState(PreA) = "Running"
    /\ Val(PreS.elapsed_time) > 0
    /\ clock > Val(PreS.last_resumed_time)
    /\ Val(PostS.start_time) + Val(PostS.elapsed_time) <= Val(PostS.end_time)

\* pause, resume or complete was asked of an assignment in a state from
\* which the guard lets it through
PermittedTransition ==
    \/ Reached("pause") /\ LifeState(PreA) = "Running"
    \/ Reached("resume") /\ LifeState(PreA) = "Paused"
    \/ Reached("complete") /\ LifeState(PreA) \in {"Running", "Paused"}

\* the row the request found lacks a timestamp or value its state implies:
\* no start_time, or Paused with no last_paused_time, elapsed_time or
\* remaining_seconds
LacksPrerequisite ==
    \/ PreS.start_time = None
    \/ /\ LifeState(PreA) = "Paused"
       /\ \/ PreS.last_paused_time = None
          \/ PreS.elapsed_time = None
          \/ PreS.remaining_seconds = None

\* C28: a pause, resume or complete applied to a persisted state that lacks a
\* prerequisite timestamp or value is answered with an internal error, status
\* 500, not with an invalid-transition rejection, and leaves the persisted
\* state unchanged.
C28_MissingPrerequisiteIsIntegrityFault ==
    (PermittedTransition /\ LacksPrerequisite) =>
        /\ resp.status = 500
        /\ ~InvalidTransition
        /\ NothingChanged

\* a Paused assignment with no last_paused_time is completed: the request is
\* accepted and stores no end_time or takes the assignment as never paused
C28_Witness ==
    /\ Accepted("complete")
    /\ LifeState(PreA) = "Paused"
    /\ PreS.last_paused_time = None
    /\ PreS.start_time # None
    /\ LifeState(PostA) = "Complete"
    /\ PostS.end_time = None \/ PostS.end_time = Some(clock)

\* the details of the internal errors the handlers raise on a row they cannot
\* compute from
IntegrityDetails ==
    { "Error occurred calculating pause time.",
      "Error calculating remaining time",
      "Error calculating start time" }

IntegrityFault == resp.status = 500 /\ resp.detail \in IntegrityDetails

\* C29: from a freshly created assignment no sequence of start, pause, resume,
\* complete and update requests handled one after the other is answered with
\* an integrity fault: every Running assignment has start_time set and every
\* Paused assignment has elapsed_time and remaining_seconds set.  The one
\* internal error such a sequence is answered with is that of an update whose
\* title is blank, which no row causes.
C29_NoIntegrityFault ==
    /\ ~IntegrityFault
    /\ resp.status = 500 => resp.op = "update" /\ Blank(request.title)
    /\ \A id \in DOMAIN assignments :
           LET statistics == StatIn(assignment_statistics, id)
           IN  /\ LifeState(assignments[id]) = "Running" =>
                      statistics.start_time # None
               /\ LifeState(assignments[id]) = "Paused" =>
                      /\ statistics.start_time # None
                      /\ statistics.elapsed_time # None
                      /\ statistics.remaining_seconds # None

\* a resume a minute after the second pause of an assignment is accepted
C29_Witness ==
    /\ Accepted("resume")
    /\ PreS.pause_count = 2
    /\ PreS.elapsed_time # None /\ PreS.remaining_seconds # None
    /\ clock >= Val(PreS.last_paused_time) + MinuteTicks

\* C30: the reason of every invalid-transition rejection is true of the state
\* of the assignment: "hasn't been started yet" only when it is NotStarted,
\* "already paused" only when Paused, "already running" only when Running,
\* and "already been completed" whenever a pause, resume or complete is
\* rejected because it is Complete.
C30_RejectionReasonIsTrue ==
    (InvalidTransition /\ resp.id \in DOMAIN pre[1]) =>
        /\ resp.detail = "Assignment hasn't been started yet" =>
               LifeState(PreA) = "NotStarted"
        /\ resp.detail = "Assignment is already paused" => LifeState(PreA) = "Paused"
        /\ resp.detail = "Assignment is already running" => LifeState(PreA) = "Running"
        /\ (LifeState(PreA) = "Complete" /\ resp.op \in {"pause", "resume", "complete"}) =>
               resp.detail = "Assignment has already been completed"

\* a resume of a Complete assignment is told the assignment is running
C30_Witness ==
    /\ Reached("resume")
    /\ LifeState(PreA) = "Complete"
    /\ resp.status = 400
    /\ resp.detail = "Assignment is already running"

\* the last request was a complete accepted before the time spent running
\* reached the budget
ManualComplete ==
    /\ Accepted("complete")
    /\ history[resp.id].active < MaxTicks(PreA)

\* C31: in every state pause_count = 0 exactly when last_paused_time is null
\* and exactly when remaining_seconds is null; so every Paused assignment has
\* last_paused_time and remaining_seconds set, and a complete takes the
\* never-paused branch, which last_paused_time being null selects, exactly
\* when pause_count = 0: below the budget it then stores the rounded time
\* since the start and end_time = now, and with pause_count > 0 the recorded
\* elapsed time, extended by the time since the resume when Running.
C31_PauseFieldsSetTogether ==
    /\ \A k \in DOMAIN assignment_statistics :
           LET statistics == assignment_statistics[k]
           IN  /\ (statistics.pause_count = 0) <=> (statistics.last_paused_time = None)
               /\ (statistics.pause_count = 0) <=> (statistics.remaining_seconds = None)
               /\ LifeState(assignments[statistics.assignment_id]) = "Paused" =>
                      /\ statistics.last_paused_time # None
                      /\ statistics.remaining_seconds # None
    /\ Accepted("complete") =>
           (PreS.last_paused_time = None) <=> (PreS.pause_count = 0)
    /\ (ManualComplete /\ PreS.pause_count = 0) =>
           /\ PostS.end_time = Some(clock)
           /\ Val(PostS.elapsed_time) % TicksPerSec = 0
           /\ 2 * (Val(PostS.elapsed_time) - (clock - Val(PreS.start_time))) <= TicksPerSec
           /\ 2 * ((clock - Val(PreS.start_time)) - Val(PostS.elapsed_time)) <= TicksPerSec
    /\ (ManualComplete /\ PreS.pause_count > 0) =>
           IF LifeState(PreA) = "Paused"
           THEN /\ PostS.elapsed_time = PreS.elapsed_time
                /\ PostS.end_time = PreS.last_paused_time
           ELSE /\ Val(PostS.elapsed_time)
                       = Val(PreS.elapsed_time) + (clock - Val(PreS.last_resumed_time))
                /\ PostS.end_time = Some(clock)

\* a Running assignment that was paused for half a second is completed below
\* the budget: the time of the pause is not counted as the never-paused
\* branch would count it
C31_Witness ==
    /\ ManualComplete
    /\ PreS.pause_count > 0
    /\ LifeState(PreA) = "Running"
    /\ Val(PreS.last_resumed_time) > Val(PreS.last_paused_time)
    /\ Val(PostS.elapsed_time) < clock - Val(PreS.start_time)

\* an accepted resume or update
ResumeOrUpdate == Accepted("resume") \/ Accepted("update")

LifeStates == {"NotStarted", "Running", "Paused", "Complete"}

\* C33: an update of an existing assignment by a known user, with a title
\* that is not blank, is accepted in each of the states NotStarted, Running,
\* Paused and Complete, and no update, accepted or not, changes a lifecycle flag or a
\* field of the statistics.
C33_UpdateInEveryState ==
    Reached("update") =>
        /\ LifeState(PreA) \in LifeStates
        /\ ~Blank(request.title) => resp.status = 200
        /\ PostA.is_started = PreA.is_started
        /\ PostA.is_paused = PreA.is_paused
        /\ PostA.is_complete = PreA.is_complete
        /\ PostS = PreS
        /\ assignment_statistics = pre[2]

\* an update is accepted on a Complete assignment that was paused once and
\* retitles it
C33_Witness ==
    /\ Accepted("update")
    /\ LifeState(PreA) = "Complete"
    /\ PreS.pause_count = 1
    /\ PostA.title # PreA.title
    /\ LifeState(PostA) = "Complete"
    /\ PostS = PreS

====
